---- MODULE Spec2Model ----
(***************************************************************************)
(* Turnos Farmacia (src/app.py): the relational tables the page reads and  *)
(* writes, the availability queries, the assignment bookkeeping, the month *)
(* closure, the people forms and the monthly dashboard.                    *)
(*                                                                         *)
(* A table is a set of rows (records).  A date is <<year, month, day>>.    *)
(* A text input is a sequence of characters, so that strip() is computed.  *)
(***************************************************************************)
EXTENDS Integers, Sequences, FiniteSets, TLC

VARIABLES employees, weekly, overrides, time_off, assignments, month_closures,
          last, writes, users

vars == <<employees, weekly, overrides, time_off, assignments, month_closures,
          last, writes, users>>

---------------------------------------------------------------------------
(* Bounds of the exploration *)

\* employees are numbered 1..NumEmployees by the database
NumEmployees == 2

\* longest text typed into a name box
MaxNameLen == 2

\* availability writes (override / weekly / base rows) explored in one run
MaxWrites == 2

---------------------------------------------------------------------------
(* Program constants *)

\* range(1, 8): ISO weekdays 1..7
LastIsoDow == 7

\* total_seconds() / 3600.0
SecondsPerHour == 3600

\* if start.month == 12
December == 12

---------------------------------------------------------------------------
(* datetime.date *)

IsLeap(y) == (y % 4 = 0) /\ ((y % 100 # 0) \/ (y % 400 = 0))

DaysInMonth(y, m) ==
    IF m = 2 THEN (IF IsLeap(y) THEN 29 ELSE 28)
    ELSE IF m \in {4, 6, 9, 11} THEN 30 ELSE 31

RECURSIVE DaysBeforeMonth(_, _)
DaysBeforeMonth(y, m) ==
    IF m = 1 THEN 0 ELSE DaysBeforeMonth(y, m - 1) + DaysInMonth(y, m - 1)

DaysBeforeYear(y) ==
    (y - 1) * 365 + ((y - 1) \div 4) - ((y - 1) \div 100) + ((y - 1) \div 400)

\* date.toordinal()
ToOrdinal(d) == DaysBeforeYear(d[1]) + DaysBeforeMonth(d[1], d[2]) + d[3]

\* date.isoweekday(): Monday is 1, Sunday is 7
isoweekday(d) == ((ToOrdinal(d) + 6) % 7) + 1

\* date < date, date <= date
DateLT(a, b) ==
    \/ a[1] < b[1]
    \/ a[1] = b[1] /\ a[2] < b[2]
    \/ a[1] = b[1] /\ a[2] = b[2] /\ a[3] < b[3]

DateLE(a, b) == a = b \/ DateLT(a, b)

\* :dt between start_date and end_date
Between(dt, lo, hi) == DateLE(lo, dt) /\ DateLE(dt, hi)

\* d.replace(day=1)
month_start(d) == <<d[1], d[2], 1>>

next_month_start(d) ==
    LET ms == month_start(d) IN
    IF ms[2] = December THEN <<ms[1] + 1, 1, 1>> ELSE <<ms[1], ms[2] + 1, 1>>

month_range(any_day_in_month) ==
    LET start == <<any_day_in_month[1], any_day_in_month[2], 1>> IN
    IF start[2] = December
    THEN <<start, <<start[1] + 1, 1, 1>>>>
    ELSE <<start, <<start[1], start[2] + 1, 1>>>>

---------------------------------------------------------------------------
(* Input domains *)

EmployeeIds == 1 .. NumEmployees

\* 2024-06-03 and 2024-06-10 are Mondays, 2024-06-04 a Tuesday
Dates == { <<2024, 6, 3>>, <<2024, 6, 4>>, <<2024, 6, 10>> }

\* days picked in the month selectors
PickDates == Dates \cup { <<2024, 7, 1>>, <<2024, 12, 31>>, <<2025, 1, 1>> }

NULL == "null"

\* shift_types is read, never written, by the page; times of day in seconds:
\* 09:00-13:00, 16:00-20:30 and an inactive 20:00-22:00
shift_types ==
    { [id |-> "M", name |-> "Manana", start_time |-> 9 * SecondsPerHour,
       end_time |-> 13 * SecondsPerHour, active |-> TRUE],
      [id |-> "T", name |-> "Tarde", start_time |-> 16 * SecondsPerHour,
       end_time |-> 20 * SecondsPerHour + 1800, active |-> TRUE],
      [id |-> "N", name |-> "Noche", start_time |-> 20 * SecondsPerHour,
       end_time |-> 22 * SecondsPerHour, active |-> FALSE] }

get_active_shifts == { sh \in shift_types : sh.active = TRUE }

ShiftIds == { sh.id : sh \in get_active_shifts }

IsoDows == 1 .. LastIsoDow

\* weekdays whose checkbox is toggled: those of Dates
DowInputs == { isoweekday(d) : d \in Dates }

Chars == { "a", " " }

RECURSIVE SeqsUpTo(_)
SeqsUpTo(n) ==
    IF n = 0 THEN { <<>> }
    ELSE LET shorter == SeqsUpTo(n - 1) IN
         shorter \cup { Append(s, c) : s \in { t \in shorter : Len(t) = n - 1 },
                                       c \in Chars }

NameInputs == SeqsUpTo(MaxNameLen)

Roles == { "empleada", "encargada" }

---------------------------------------------------------------------------
(* str.strip() *)

IsSpace(c) == c = " "

RECURSIVE lstrip(_)
lstrip(s) ==
    IF s = <<>> THEN s
    ELSE IF IsSpace(Head(s)) THEN lstrip(Tail(s)) ELSE s

RECURSIVE rstrip(_)
rstrip(s) ==
    IF s = <<>> THEN s
    ELSE IF IsSpace(s[Len(s)]) THEN rstrip(SubSeq(s, 1, Len(s) - 1)) ELSE s

strip(s) == rstrip(lstrip(s))

---------------------------------------------------------------------------
(* Availability queries *)

\* the precedence reversed: weekly row before override
CoalesceWeeklyFirst(o, w, dflt) ==
    IF w # {} THEN CHOOSE x \in w : TRUE
    ELSE IF o # {} THEN CHOOSE x \in o : TRUE
    ELSE dflt

\* coalesce(o.available, w.available, true): a left-joined side with no row
\* is null; o and w are the sets of joined values (at most one each, by the
\* tables' unique keys)
Coalesce(o, w, dflt) ==
    IF o # {} THEN CHOOSE x \in o : TRUE
    ELSE IF w # {} THEN CHOOSE x \in w : TRUE
    ELSE dflt

WeeklyJoin(e, dow, shift) ==
    { w.available : w \in { r \in weekly : r.employee_id = e.id
                                         /\ r.iso_dow = dow
                                         /\ r.shift_type_id = shift } }

OverrideJoin(e, dt, shift) ==
    { o.available : o \in { r \in overrides : r.employee_id = e.id
                                            /\ r.work_date = dt
                                            /\ r.shift_type_id = shift } }

\* a blanket (null shift) time-off row forgotten
TimeOffExistsSameShiftOnly(e, dt, shift) ==
    \E t \in time_off :
        /\ t.employee_id = e.id
        /\ Between(dt, t.start_date, t.end_date)
        /\ t.shift_type_id = shift

\* exists (select 1 from employee_time_off t where ...)
TimeOffExists(e, dt, shift) ==
    \E t \in time_off :
        /\ t.employee_id = e.id
        /\ Between(dt, t.start_date, t.end_date)
        /\ (t.shift_type_id = NULL \/ t.shift_type_id = shift)

get_effective_availability_all(work_date, iso_dow, shift_id) ==
    { [id |-> e.id,
       full_name |-> e.full_name,
       is_available |-> Coalesce(OverrideJoin(e, work_date, shift_id),
                                 WeeklyJoin(e, iso_dow, shift_id), TRUE),
       is_time_off |-> TimeOffExists(e, work_date, shift_id)]
      : e \in { x \in employees : x.active = TRUE } }

available_employees_for_date_shift(work_date, iso_dow, shift_id) ==
    { [id |-> e.id, full_name |-> e.full_name]
      : e \in { x \in employees :
                  /\ x.active = TRUE
                  /\ ~ TimeOffExists(x, work_date, shift_id)
                  /\ Coalesce(OverrideJoin(x, work_date, shift_id),
                              WeeklyJoin(x, iso_dow, shift_id), TRUE) = TRUE } }

---------------------------------------------------------------------------
(* Availability writes *)

upsert_override(tbl, emp_id, work_date, shift_id, available, reason) ==
    { r \in tbl : ~ (r.employee_id = emp_id /\ r.work_date = work_date
                     /\ r.shift_type_id = shift_id) }
    \cup { [employee_id |-> emp_id, work_date |-> work_date,
            shift_type_id |-> shift_id, available |-> available,
            reason |-> reason] }

upsert_weekly_availability(tbl, emp_id, iso_dow, shift_id, available) ==
    { r \in tbl : ~ (r.employee_id = emp_id /\ r.iso_dow = iso_dow
                     /\ r.shift_type_id = shift_id) }
    \cup { [employee_id |-> emp_id, iso_dow |-> iso_dow,
            shift_type_id |-> shift_id, available |-> available] }

\* on conflict do update set available = true, instead of do nothing
InsertWeeklyOverwrite(tbl, emp_id, iso_dow, shift_id) ==
    { r \in tbl : ~ (r.employee_id = emp_id /\ r.iso_dow = iso_dow
                     /\ r.shift_type_id = shift_id) }
    \cup { [employee_id |-> emp_id, iso_dow |-> iso_dow,
            shift_type_id |-> shift_id, available |-> TRUE] }

\* insert ... values (:e, :d, :s, true) on conflict (...) do nothing
InsertWeeklyDoNothing(tbl, emp_id, iso_dow, shift_id) ==
    IF \E r \in tbl : r.employee_id = emp_id /\ r.iso_dow = iso_dow
                      /\ r.shift_type_id = shift_id
    THEN tbl
    ELSE tbl \cup { [employee_id |-> emp_id, iso_dow |-> iso_dow,
                     shift_type_id |-> shift_id, available |-> TRUE] }

RECURSIVE InsertAllWeekly(_, _, _)
InsertAllWeekly(tbl, emp_id, keys) ==
    IF keys = {} THEN tbl
    ELSE LET k == CHOOSE x \in keys : TRUE IN
         InsertAllWeekly(InsertWeeklyDoNothing(tbl, emp_id, k[1], k[2]),
                         emp_id, keys \ {k})

\* for dow in range(1, 8): for sh in shifts: insert ... do nothing
ensure_base_weekly_rows(tbl, sel_id) ==
    InsertAllWeekly(tbl, sel_id, IsoDows \X ShiftIds)

---------------------------------------------------------------------------
(* Initial tables *)

Call(op, args) == [op |-> op, args |-> args]

NoCall == Call("none", <<>>)

DefaultName(i) == [k \in 1 .. i |-> "a"]

\* every employee exists; each is active or not
EmployeeTables ==
    { { [id |-> i, full_name |-> DefaultName(i), role |-> "empleada",
         active |-> act[i]] : i \in EmployeeIds }
      : act \in [EmployeeIds -> BOOLEAN] }

\* employee_time_off is filled outside the page.  Employee 1 is away on
\* 2024-06-03 for every shift and from 2024-06-04 to 2024-06-10 for the
\* afternoons; employee 2 is away on the mornings of 2024-06-03..04.
Vacations ==
    { [employee_id |-> 1, start_date |-> <<2024, 6, 3>>,
       end_date |-> <<2024, 6, 3>>, shift_type_id |-> NULL],
      [employee_id |-> 1, start_date |-> <<2024, 6, 4>>,
       end_date |-> <<2024, 6, 10>>, shift_type_id |-> "T"],
      [employee_id |-> 2, start_date |-> <<2024, 6, 3>>,
       end_date |-> <<2024, 6, 4>>, shift_type_id |-> "M"] }

---------------------------------------------------------------------------
(* Availability: one action per write *)

UpsertOverride(e, dt, s, a) ==
    /\ writes < MaxWrites
    /\ overrides' = upsert_override(overrides, e, dt, s, a, "")
    /\ last' = Call("upsert_override", <<>>)
    /\ writes' = writes + 1
    /\ UNCHANGED <<employees, weekly, time_off, assignments, month_closures, users>>

UpsertWeekly(e, dow, s, a) ==
    /\ writes < MaxWrites
    /\ weekly' = upsert_weekly_availability(weekly, e, dow, s, a)
    /\ last' = Call("upsert_weekly_availability", <<>>)
    /\ writes' = writes + 1
    /\ UNCHANGED <<employees, overrides, time_off, assignments, month_closures, users>>

\* opening the weekly editor of the selected person
EnsureBaseWeeklyRows(e) ==
    /\ writes < MaxWrites
    /\ weekly' = ensure_base_weekly_rows(weekly, e)
    /\ last' = Call("ensure_base_weekly_rows", <<e>>)
    /\ writes' = writes + 1
    /\ UNCHANGED <<employees, overrides, time_off, assignments, month_closures, users>>

InitAvail ==
    /\ employees \in EmployeeTables
    /\ time_off = Vacations
    /\ weekly = {}
    /\ overrides = {}
    /\ assignments = {}
    /\ month_closures = {}
    /\ last = NoCall
    /\ writes = 0
    /\ users = <<>>

NextAvail ==
    \/ \E e \in EmployeeIds, dt \in Dates, s \in ShiftIds, a \in BOOLEAN :
         UpsertOverride(e, dt, s, a)
    \/ \E e \in EmployeeIds, dow \in DowInputs, s \in ShiftIds, a \in BOOLEAN :
         UpsertWeekly(e, dow, s, a)
    \/ \E e \in EmployeeIds : EnsureBaseWeeklyRows(e)

SpecAvail == InitAvail /\ [][NextAvail]_vars

---------------------------------------------------------------------------
(* Assignment bookkeeping *)

\* the id the database gives the row of a (work_date, shift, employee)
\* triple; the triple is unique and rows are never deleted, so one id each
AssignmentId(dt, shift, emp) == <<dt, shift, emp>>

SameSlot(r, dt, shift) == r.work_date = dt /\ r.shift_type_id = shift

\* on conflict do nothing: an existing inactive row stays inactive
UpsertAssignmentDoNothing(tbl, dt, dow, shift, emp) ==
    IF \E r \in tbl : SameSlot(r, dt, shift) /\ r.employee_id = emp
    THEN tbl
    ELSE tbl \cup { [id |-> AssignmentId(dt, shift, emp), work_date |-> dt,
                     iso_dow |-> dow, shift_type_id |-> shift,
                     employee_id |-> emp, active |-> TRUE] }

\* on conflict do update set active = not active
UpsertAssignmentToggle(tbl, dt, dow, shift, emp) ==
    IF \E r \in tbl : SameSlot(r, dt, shift) /\ r.employee_id = emp
    THEN { IF SameSlot(r, dt, shift) /\ r.employee_id = emp
           THEN [r EXCEPT !.active = ~ r.active] ELSE r : r \in tbl }
    ELSE tbl \cup { [id |-> AssignmentId(dt, shift, emp), work_date |-> dt,
                     iso_dow |-> dow, shift_type_id |-> shift,
                     employee_id |-> emp, active |-> TRUE] }

\* insert ... values (:dt, :dow, :shift, :emp, true)
\* on conflict (work_date, shift_type_id, employee_id) do update set active=true
UpsertAssignment(tbl, dt, dow, shift, emp) ==
    IF \E r \in tbl : SameSlot(r, dt, shift) /\ r.employee_id = emp
    THEN { IF SameSlot(r, dt, shift) /\ r.employee_id = emp
           THEN [r EXCEPT !.active = TRUE] ELSE r : r \in tbl }
    ELSE tbl \cup { [id |-> AssignmentId(dt, shift, emp), work_date |-> dt,
                     iso_dow |-> dow, shift_type_id |-> shift,
                     employee_id |-> emp, active |-> TRUE] }

\* delete from shift_assignments where ..., instead of set active=false
DeleteAssignments(tbl, dt, shift, arr) ==
    { r \in tbl : ~ (SameSlot(r, dt, shift) /\ r.employee_id \in arr) }

\* update shift_assignments set active=false
\* where work_date=:dt and shift_type_id=:shift and employee_id = any(:arr)
DeactivateAssignments(tbl, dt, shift, arr) ==
    { IF SameSlot(r, dt, shift) /\ r.employee_id \in arr
      THEN [r EXCEPT !.active = FALSE] ELSE r : r \in tbl }

\* select employee_id ... where work_date=:dt and shift_type_id=:shift
ExistingIds(tbl, dt, shift) ==
    { r.employee_id : r \in { x \in tbl : SameSlot(x, dt, shift) } }

\* for emp_id in selected_ids: upsert
RECURSIVE UpsertAll(_, _, _, _, _)
UpsertAll(tbl, dt, dow, shift, ids) ==
    IF ids = {} THEN tbl
    ELSE LET emp == CHOOSE x \in ids : TRUE IN
         UpsertAll(UpsertAssignment(tbl, dt, dow, shift, emp),
                   dt, dow, shift, ids \ {emp})

apply_assignments(tbl, work_date, iso_dow, shift_id, selected_employee_ids) ==
    LET existing_ids == ExistingIds(tbl, work_date, shift_id)
        selected_ids == selected_employee_ids
        upserted == UpsertAll(tbl, work_date, iso_dow, shift_id, selected_ids)
        to_deactivate == existing_ids \ selected_ids
    IN  IF to_deactivate # {}
        THEN DeactivateAssignments(upserted, work_date, shift_id, to_deactivate)
        ELSE upserted

set_assignment_active(tbl, assignment_id, active) ==
    { IF r.id = assignment_id THEN [r EXCEPT !.active = active] ELSE r
      : r \in tbl }

\* get_assignments joins employees: the rows of the slot, with the name
get_assignments(work_date, shift_id) ==
    { [assignment_id |-> a.id, employee_id |-> a.employee_id,
       active |-> a.active, full_name |-> e.full_name]
      : <<a, e>> \in { p \in assignments \X employees :
                         /\ p[2].id = p[1].employee_id
                         /\ SameSlot(p[1], work_date, shift_id) } }

\* the calendar slots that are edited
AssignSlots ==
    { <<<<2024, 6, 3>>, "M">>, <<<<2024, 6, 3>>, "T">>, <<<<2024, 7, 1>>, "M">> }

AllActive ==
    { [id |-> i, full_name |-> DefaultName(i), role |-> "empleada",
       active |-> TRUE] : i \in EmployeeIds }

ApplyAssignments(dt, s, sel) ==
    /\ assignments' = apply_assignments(assignments, dt, isoweekday(dt), s, sel)
    /\ last' = Call("apply_assignments", <<dt, s, sel>>)
    /\ UNCHANGED <<employees, weekly, overrides, time_off, month_closures,
                   writes, users>>

\* a checkbox of "Asignaciones existentes" is flipped
SetAssignmentActive(sl) ==
    \E r \in get_assignments(sl[1], sl[2]) :
        /\ assignments' = set_assignment_active(assignments, r.assignment_id,
                                                ~ r.active)
        /\ last' = Call("set_assignment_active", <<>>)
        /\ UNCHANGED <<employees, weekly, overrides, time_off, month_closures,
                       writes, users>>

InitAssign ==
    /\ employees = AllActive
    /\ time_off = {}
    /\ weekly = {}
    /\ overrides = {}
    /\ assignments = {}
    /\ month_closures = {}
    /\ last = NoCall
    /\ writes = 0
    /\ users = <<>>

NextAssign ==
    \/ \E sl \in AssignSlots, sel \in SUBSET EmployeeIds :
         ApplyAssignments(sl[1], sl[2], sel)
    \/ \E sl \in AssignSlots : SetAssignmentActive(sl)

SpecAssign == InitAssign /\ [][NextAssign]_vars

---------------------------------------------------------------------------
(* People forms *)

\* the id the database gives a new employee; employees are never deleted
NextEmployeeId(tbl) == Cardinality(tbl) + 1

\* with st.form("add_person"): if ok and name.strip(): insert
add_person(tbl, name, role) ==
    IF strip(name) # <<>>
    THEN tbl \cup { [id |-> NextEmployeeId(tbl), full_name |-> strip(name),
                     role |-> role, active |-> TRUE] }
    ELSE tbl

\* "Guardar cambios": update employees set full_name=:n, role=:r, active=:a
\* where id=:id, with n = new_name.strip()
save_person(tbl, sel_id, new_name, new_role, new_active) ==
    { IF r.id = sel_id
      THEN [r EXCEPT !.full_name = strip(new_name), !.role = new_role,
                     !.active = new_active]
      ELSE r : r \in tbl }

AddPerson(name, role) ==
    /\ Cardinality(employees) < NumEmployees
    /\ employees' = add_person(employees, name, role)
    /\ last' = Call("add_person", <<name>>)
    /\ UNCHANGED <<weekly, overrides, time_off, assignments, month_closures,
                   writes, users>>

\* sel_row is a row whose name is picked in the select box (any of them when
\* two rows carry the same name: the order of equal names is the database's)
SavePerson(new_name, new_role, new_active) ==
    \E sel_row \in employees :
        /\ employees' = save_person(employees, sel_row.id, new_name, new_role,
                                    new_active)
        /\ last' = Call("save_person", <<new_name>>)
        /\ UNCHANGED <<weekly, overrides, time_off, assignments,
                       month_closures, writes, users>>

InitPeople ==
    /\ employees = {}
    /\ time_off = {}
    /\ weekly = {}
    /\ overrides = {}
    /\ assignments = {}
    /\ month_closures = {}
    /\ last = NoCall
    /\ writes = 0
    /\ users = <<>>

NextPeople ==
    \/ \E name \in NameInputs, role \in Roles : AddPerson(name, role)
    \/ \E name \in NameInputs, role \in Roles, act \in BOOLEAN :
         SavePerson(name, role, act)

SpecPeople == InitPeople /\ [][NextPeople]_vars

---------------------------------------------------------------------------
(* Monthly dashboard *)

\* select e.full_name, st.name as turno, st.start_time, st.end_time, a.work_date
\* from shift_assignments a join employees e join shift_types st
\* where a.active=true and a.work_date >= :s and a.work_date < :e
\* (one result row per assignment row: row keeps the rows apart)
DashboardRows(start, end) ==
    { [row |-> t[1].id, full_name |-> t[2].full_name, turno |-> t[3].name,
       start_time |-> t[3].start_time, end_time |-> t[3].end_time,
       work_date |-> t[1].work_date]
      : t \in { x \in assignments \X employees \X shift_types :
                  /\ x[2].id = x[1].employee_id
                  /\ x[3].id = x[1].shift_type_id
                  /\ x[1].active = TRUE
                  /\ DateLE(start, x[1].work_date)
                  /\ DateLT(x[1].work_date, end) } }

\* df["hours"] = (end_time - start_time).total_seconds() / 3600.0, kept as
\* the numerator in seconds: the hours are Seconds(r) / SecondsPerHour
Seconds(r) == r.end_time - r.start_time

RECURSIVE SumSeconds(_)
SumSeconds(rows) ==
    IF rows = {} THEN 0
    ELSE LET r == CHOOSE x \in rows : TRUE IN
         Seconds(r) + SumSeconds(rows \ {r})

\* df.groupby("full_name").agg(turnos=("turno", "count"), horas=("hours", "sum"))
Resumen(pick) ==
    LET df == DashboardRows(month_range(pick)[1], month_range(pick)[2])
    IN  [n \in { r.full_name : r \in df } |->
            [turnos |-> Cardinality({ r \in df : r.full_name = n }),
             seconds |-> SumSeconds({ r \in df : r.full_name = n })]]

\* people entered through the add form: a name each, possibly the same
PeopleTables ==
    { { [id |-> i, full_name |-> nm[i], role |-> "empleada", active |-> TRUE]
        : i \in EmployeeIds }
      : nm \in [EmployeeIds -> { strip(x) : x \in NameInputs } \ { <<>> }] }

InitDash ==
    /\ employees \in PeopleTables
    /\ time_off = {}
    /\ weekly = {}
    /\ overrides = {}
    /\ assignments = {}
    /\ month_closures = {}
    /\ last = NoCall
    /\ writes = 0
    /\ users = <<>>

SpecDash == InitDash /\ [][NextAssign]_vars

---------------------------------------------------------------------------
(* Month closure *)

is_month_closed(ms) == { r \in month_closures : r.month_start = ms } # {}

\* on conflict (month_start) do update set closed_by = excluded.closed_by
close_month_overwrite(tbl, ms, closed_by) ==
    { r \in tbl : r.month_start # ms }
    \cup { [month_start |-> ms, closed_by |-> closed_by] }

\* insert into month_closures ... on conflict (month_start) do nothing
close_month(tbl, ms, closed_by) ==
    IF \E r \in tbl : r.month_start = ms
    THEN tbl
    ELSE tbl \cup { [month_start |-> ms, closed_by |-> closed_by] }

ClosedByInputs == { "", "ana", "bea" }

MonthInputs == { month_start(d) : d \in PickDates }

CloseMonth(ms, by) ==
    /\ month_closures' = close_month(month_closures, ms, by)
    /\ last' = Call("close_month", <<ms, by>>)
    /\ UNCHANGED <<employees, weekly, overrides, time_off, assignments,
                   writes, users>>

InitClose ==
    /\ employees = AllActive
    /\ time_off = {}
    /\ weekly = {}
    /\ overrides = {}
    /\ assignments = {}
    /\ month_closures = {}
    /\ last = NoCall
    /\ writes = 0
    /\ users = <<>>

NextClose == \E ms \in MonthInputs, by \in ClosedByInputs : CloseMonth(ms, by)

SpecClose == InitClose /\ [][NextClose]_vars

---------------------------------------------------------------------------
(* Two users saving the same slot: one step per SQL statement *)

Users == { 1, 2 }

Other(u) == CHOOSE v \in Users : v # u

ConcSlot == << <<2024, 6, 3>>, "M" >>

\* the rows the slot may hold before the two calls: per employee no row, an
\* active row or an inactive row
PriorTables ==
    { { [id |-> AssignmentId(ConcSlot[1], ConcSlot[2], e),
         work_date |-> ConcSlot[1], iso_dow |-> isoweekday(ConcSlot[1]),
         shift_type_id |-> ConcSlot[2], employee_id |-> e,
         active |-> (st[e] = "active")]
        : e \in { x \in EmployeeIds : st[x] # "none" } }
      : st \in [EmployeeIds -> { "none", "active", "inactive" }] }

\* existing = read_df(...); existing_ids, selected_ids
ReadExisting(u) ==
    /\ users[u].pc = "read"
    /\ users' = [users EXCEPT ![u].pc = "loop",
                              ![u].existing_ids =
                                  ExistingIds(assignments, ConcSlot[1], ConcSlot[2]),
                              ![u].todo = users[u].selected_ids,
                              ![u].after_other = (users[Other(u)].pc = "done")]
    /\ UNCHANGED <<employees, weekly, overrides, time_off, assignments,
                   month_closures, last, writes>>

\* one turn of "for emp_id in selected_ids": one exec_sql upsert
UpsertNext(u) ==
    /\ users[u].pc = "loop"
    /\ \E emp \in users[u].todo :
         /\ assignments' = UpsertAssignment(assignments, ConcSlot[1],
                                            isoweekday(ConcSlot[1]), ConcSlot[2], emp)
         /\ users' = [users EXCEPT ![u].todo = users[u].todo \ {emp}]
    /\ UNCHANGED <<employees, weekly, overrides, time_off, month_closures,
                   last, writes>>

\* to_deactivate = existing_ids - selected_ids; if to_deactivate: exec_sql update
DeactivateRest(u) ==
    /\ users[u].pc = "loop"
    /\ users[u].todo = {}
    /\ LET to_deactivate == users[u].existing_ids \ users[u].selected_ids IN
         assignments' = IF to_deactivate # {}
                        THEN DeactivateAssignments(assignments, ConcSlot[1],
                                                   ConcSlot[2], to_deactivate)
                        ELSE assignments
    /\ users' = [users EXCEPT ![u].pc = "done"]
    /\ UNCHANGED <<employees, weekly, overrides, time_off, month_closures,
                   last, writes>>

InitConc ==
    /\ employees = AllActive
    /\ time_off = {}
    /\ weekly = {}
    /\ overrides = {}
    /\ assignments \in PriorTables
    /\ month_closures = {}
    /\ last = NoCall
    /\ writes = 0
    /\ \E x1 \in SUBSET EmployeeIds, x2 \in SUBSET EmployeeIds :
         users = [u \in Users |->
                    [pc |-> "read",
                     selected_ids |-> IF u = 1 THEN x1 ELSE x2,
                     existing_ids |-> {}, todo |-> {}, after_other |-> FALSE]]

NextConc ==
    \E u \in Users : ReadExisting(u) \/ UpsertNext(u) \/ DeactivateRest(u)

SpecConc == InitConc /\ [][NextConc]_vars

---------------------------------------------------------------------------
(* Calendar panel: "Guardar asignacion" *)

\* every active employee offered, whatever their availability
SlotOptionsAllActive(work_date, dow, shift_id) ==
    { [id |-> e.id, full_name |-> e.full_name]
      : e \in { x \in employees : x.active = TRUE } }

\* avail = available_employees_for_date_shift(work_date, dow, str(shift_id))
SlotOptions(work_date, dow, shift_id) ==
    available_employees_for_date_shift(work_date, dow, shift_id)

\* avail_map = dict(zip(avail_names, avail["id"].tolist())): one id per name;
\* of two rows with the same name the later one stays, and the order of equal
\* names is the database's
AvailMaps(avail) ==
    { mp \in [{ r.full_name : r \in avail } -> { r.id : r \in avail }] :
        \A n \in DOMAIN mp : \E r \in avail : r.full_name = n /\ r.id = mp[n] }

\* the slots whose panel is opened
PanelSlots == { <<<<2024, 6, 3>>, "T">>, <<<<2024, 6, 10>>, "M">> }

\* the panel of slot sl is shown (somebody is available), the names in
\* selected are ticked in the multiselect and the button is pressed
SaveSlot(sl, selected) ==
    LET work_date == sl[1]
        shift_id == sl[2]
        dow == isoweekday(work_date)
        avail == SlotOptions(work_date, dow, shift_id)
        avail_names == { r.full_name : r \in avail }
    IN  /\ shift_id \in ShiftIds
        /\ avail # {}
        /\ selected \subseteq avail_names
        /\ \E avail_map \in AvailMaps(avail) :
             LET selected_ids == { avail_map[n] : n \in selected } IN
             /\ assignments' = apply_assignments(assignments, work_date, dow,
                                                 shift_id, selected_ids)
             /\ last' = Call("save_slot", <<work_date, shift_id, selected_ids>>)
        /\ UNCHANGED <<employees, weekly, overrides, time_off, month_closures,
                       writes, users>>

PanelNames == { DefaultName(1), DefaultName(2) }

\* people with a name each (possibly the same one), active or not
PanelPeople ==
    { { [id |-> i, full_name |-> nm[i], role |-> "empleada", active |-> act[i]]
        : i \in EmployeeIds }
      : nm \in [EmployeeIds -> PanelNames], act \in [EmployeeIds -> BOOLEAN] }

\* overrides entered earlier: employee 2 cannot come on the afternoon of
\* 2024-06-03, employee 1 can (but is on time off) and cannot come on the
\* morning of 2024-06-10
Exceptions ==
    { [employee_id |-> 2, work_date |-> <<2024, 6, 3>>, shift_type_id |-> "T",
       available |-> FALSE, reason |-> ""],
      [employee_id |-> 1, work_date |-> <<2024, 6, 3>>, shift_type_id |-> "T",
       available |-> TRUE, reason |-> ""],
      [employee_id |-> 1, work_date |-> <<2024, 6, 10>>, shift_type_id |-> "M",
       available |-> FALSE, reason |-> ""] }

\* a weekly pattern entered earlier: employee 2 never works Monday mornings
WeeklyPattern ==
    { [employee_id |-> 2, iso_dow |-> 1, shift_type_id |-> "M",
       available |-> FALSE] }

\* rows the two slots hold from earlier saves, made before the time-off and
\* the exceptions were entered: per employee no row, an active or an
\* inactive row in the first slot
PanelPriorTables ==
    { { [id |-> AssignmentId(<<2024, 6, 3>>, "T", e),
         work_date |-> <<2024, 6, 3>>, iso_dow |-> isoweekday(<<2024, 6, 3>>),
         shift_type_id |-> "T", employee_id |-> e,
         active |-> (st[e] = "active")]
        : e \in { x \in EmployeeIds : st[x] # "none" } }
      : st \in [EmployeeIds -> { "none", "active", "inactive" }] }

InitPanel ==
    /\ employees \in PanelPeople
    /\ time_off = Vacations
    /\ \E av \in { <<{}, {}>>, <<Exceptions, {}>>, <<{}, WeeklyPattern>> } :
         overrides = av[1] /\ weekly = av[2]
    /\ assignments \in PanelPriorTables
    /\ month_closures = {}
    /\ last = NoCall
    /\ writes = 0
    /\ users = <<>>

NextPanel ==
    \/ \E sl \in PanelSlots, selected \in SUBSET PanelNames : SaveSlot(sl, selected)
    \/ \E sl \in PanelSlots : SetAssignmentActive(sl)

SpecPanel == InitPanel /\ [][NextPanel]_vars

---------------------------------------------------------------------------
(* Properties *)

ActiveEmployees == { e \in employees : e.active = TRUE }

Slots == Dates \X ShiftIds

\* a time-off row of e covers date dt for shift s
Covered(e, dt, s) ==
    \E t \in time_off :
        /\ t.employee_id = e.id
        /\ DateLE(t.start_date, dt) /\ DateLE(dt, t.end_date)
        /\ t.shift_type_id \in {NULL, s}

OverrideRows(e, dt, s) ==
    { r \in overrides : r.employee_id = e.id /\ r.work_date = dt
                        /\ r.shift_type_id = s }

WeeklyRows(e, dow, s) ==
    { r \in weekly : r.employee_id = e.id /\ r.iso_dow = dow
                     /\ r.shift_type_id = s }

\* the two queries as the page calls them, with the weekday of the date
Returned(dt, s) == available_employees_for_date_shift(dt, isoweekday(dt), s)

Reported(dt, s) == get_effective_availability_all(dt, isoweekday(dt), s)

\* C1 as claimed: an active employee with a covering time-off row is absent
\* from available_employees_for_date_shift and the availability value that
\* get_effective_availability_all reports for them is false.
C1_AsClaimed ==
    \A sl \in Slots :
        LET ret == Returned(sl[1], sl[2])
            rep == Reported(sl[1], sl[2])
        IN  \A e \in ActiveEmployees :
                Covered(e, sl[1], sl[2]) =>
                    /\ \A r \in ret : r.id # e.id
                    /\ \A r \in rep : r.id = e.id => r.is_available = FALSE

\* C1 amended: an active employee with a covering time-off row is absent
\* from available_employees_for_date_shift whatever the override and weekly
\* rows say, and get_effective_availability_all reports exactly one row for
\* them, with is_time_off true (so "is_available and not is_time_off" is false).
C1_TimeOffExcludes ==
    \A sl \in Slots :
        LET ret == Returned(sl[1], sl[2])
            rep == Reported(sl[1], sl[2])
        IN  \A e \in ActiveEmployees :
                Covered(e, sl[1], sl[2]) =>
                    /\ \A r \in ret : r.id # e.id
                    /\ Cardinality({ r \in rep : r.id = e.id }) = 1
                    /\ \A r \in rep : r.id = e.id =>
                           r.is_time_off = TRUE
                           /\ ~ (r.is_available /\ ~ r.is_time_off)

\* an active employee on time off whose override and weekly rows both say
\* available, and whose is_available column is true
C1_Witness ==
    \E e \in ActiveEmployees, sl \in Slots :
        /\ Covered(e, sl[1], sl[2])
        /\ \E o \in OverrideRows(e, sl[1], sl[2]) : o.available = TRUE
        /\ \E w \in WeeklyRows(e, isoweekday(sl[1]), sl[2]) : w.available = TRUE
        /\ \A r \in Returned(sl[1], sl[2]) : r.id # e.id
        /\ \E r \in Reported(sl[1], sl[2]) :
               r.id = e.id /\ r.is_available /\ r.is_time_off

\* the precedence override > weekly > true, read off the tables
Precedence(e, dt, s) ==
    IF OverrideRows(e, dt, s) # {}
    THEN \A o \in OverrideRows(e, dt, s) : o.available
    ELSE IF WeeklyRows(e, isoweekday(dt), s) # {}
    THEN \A w \in WeeklyRows(e, isoweekday(dt), s) : w.available
    ELSE TRUE

\* C2: for an active employee with no covering time-off, effective
\* availability is the override row's value if there is one for exactly
\* (E, D, S), else the weekly row's value for (E, weekday(D), S) if there is
\* one, else true; the employee is returned by
\* available_employees_for_date_shift exactly when that value is true, and
\* get_effective_availability_all reports that value.
C2_Precedence ==
    \A sl \in Slots :
        LET ret == Returned(sl[1], sl[2])
            rep == Reported(sl[1], sl[2])
        IN  \A e \in ActiveEmployees :
                ~ Covered(e, sl[1], sl[2]) =>
                    /\ (\E r \in ret : r.id = e.id) <=> Precedence(e, sl[1], sl[2])
                    /\ Cardinality({ r \in rep : r.id = e.id }) = 1
                    /\ \A r \in rep : r.id = e.id =>
                           /\ r.is_available = Precedence(e, sl[1], sl[2])
                           /\ r.is_time_off = FALSE

\* an employee without time-off whose override says available while the
\* weekly row says not (the spec's Ana example), and who is returned
C2_Witness ==
    \E e \in ActiveEmployees, sl \in Slots :
        /\ ~ Covered(e, sl[1], sl[2])
        /\ \E o \in OverrideRows(e, sl[1], sl[2]) : o.available = TRUE
        /\ \E w \in WeeklyRows(e, isoweekday(sl[1]), sl[2]) : w.available = FALSE
        /\ \E r \in Returned(sl[1], sl[2]) : r.id = e.id

\* the answers of both availability queries, for every date and shift
AvailabilityAnswers ==
    [sl \in Slots |-> <<Returned(sl[1], sl[2]), Reported(sl[1], sl[2])>>]

\* C9: the ensure-default-rows step keeps every existing weekly row as it
\* was, changes nothing when run again, and leaves the answers of both
\* availability queries as they were.
C9_EnsureIsNeutral ==
    [][last'.op = "ensure_base_weekly_rows" =>
          /\ weekly \subseteq weekly'
          /\ ensure_base_weekly_rows(weekly', last'.args[1]) = weekly'
          /\ AvailabilityAnswers' = AvailabilityAnswers]_vars

\* the step has run for an employee who had a weekly row saying "not
\* available": that row is kept and the base rows are all there
C9_Witness ==
    /\ last.op = "ensure_base_weekly_rows"
    /\ \E w \in weekly : w.employee_id = last.args[1] /\ w.available = FALSE
    /\ \A dow \in IsoDows, s \in ShiftIds :
           \E w \in weekly : w.employee_id = last.args[1] /\ w.iso_dow = dow
                             /\ w.shift_type_id = s

\* employees with an active assignment row for the slot
ActiveSet(tbl, dt, s) ==
    { r.employee_id : r \in { x \in tbl : SameSlot(x, dt, s) /\ x.active } }

\* C3: when apply_assignments(D, weekday(D), S, X) has run, the employees
\* with an active row for (D, S) are exactly X: each member of X has a row
\* with active=true and every other row of the slot has active=false.
C3_ActiveSetIsSelected ==
    last.op = "apply_assignments" =>
        /\ ActiveSet(assignments, last.args[1], last.args[2]) = last.args[3]
        /\ \A e \in last.args[3] :
               \E r \in assignments : SameSlot(r, last.args[1], last.args[2])
                                      /\ r.employee_id = e /\ r.active = TRUE
        /\ \A r \in assignments :
               SameSlot(r, last.args[1], last.args[2])
               /\ r.employee_id \notin last.args[3] => r.active = FALSE

\* the call has reactivated or inserted a member of X and left another
\* employee's row of the slot inactive
C3_Witness ==
    /\ last.op = "apply_assignments"
    /\ last.args[3] # {}
    /\ \E r \in assignments : SameSlot(r, last.args[1], last.args[2])
                              /\ r.employee_id \notin last.args[3]
                              /\ r.active = FALSE

\* C4: running apply_assignments a second time with the same date, shift
\* and desired set leaves the whole assignment table as the first call left it.
C4_Idempotent ==
    last.op = "apply_assignments" =>
        apply_assignments(assignments, last.args[1], isoweekday(last.args[1]),
                          last.args[2], last.args[3]) = assignments

\* a call has run that left an active and an inactive row in its slot, and
\* rows in another slot
C4_Witness ==
    /\ last.op = "apply_assignments"
    /\ \E r, q \in assignments :
           /\ SameSlot(r, last.args[1], last.args[2]) /\ r.active
           /\ SameSlot(q, last.args[1], last.args[2]) /\ ~ q.active
    /\ \E r \in assignments : ~ SameSlot(r, last.args[1], last.args[2])

\* C5: no step deletes an assignment row or changes anything of it but its
\* active flag; and apply_assignments with the empty desired set keeps the
\* number of rows and leaves every row of its slot inactive.
C5_NoRowDeleted ==
    [][/\ \A r \in assignments :
              \E q \in assignments' : q = r \/ q = [r EXCEPT !.active = ~ r.active]
       /\ (last'.op = "apply_assignments" /\ last'.args[3] = {}) =>
              /\ Cardinality(assignments') = Cardinality(assignments)
              /\ \A q \in assignments' :
                     SameSlot(q, last'.args[1], last'.args[2]) => q.active = FALSE
      ]_vars

\* apply_assignments with the empty set has run on a slot where every
\* employee had been assigned: their rows are all there, inactive
C5_Witness ==
    /\ last.op = "apply_assignments"
    /\ last.args[3] = {}
    /\ \A e \in EmployeeIds :
           \E r \in assignments : SameSlot(r, last.args[1], last.args[2])
                                  /\ r.employee_id = e /\ r.active = FALSE

\* C7: a submit with an empty or whitespace-only name, in the add form or in
\* the edit form, leaves the employees table as it was, and no employee row
\* has an empty full_name.
C7_BlankNameIsNoOp ==
    [][/\ (last'.op \in {"add_person", "save_person"}
           /\ strip(last'.args[1]) = <<>>) => employees' = employees
       /\ \A e \in employees' : e.full_name # <<>>
      ]_vars

\* the dashboard line of an employee: the line of its name, or no shifts
\* when the dashboard shows no line for that name
DashboardLine(pick, e) ==
    IF e.full_name \in DOMAIN Resumen(pick) THEN Resumen(pick)[e.full_name]
    ELSE [turnos |-> 0, seconds |-> 0]

\* the active assignment rows of an employee in the month of pick
RowsOf(pick, e) ==
    { a \in assignments :
        /\ a.employee_id = e.id
        /\ a.active = TRUE
        /\ DateLE(month_range(pick)[1], a.work_date)
        /\ DateLT(a.work_date, month_range(pick)[2]) }

ShiftOf(a) == CHOOSE sh \in shift_types : sh.id = a.shift_type_id

RECURSIVE DurationSum(_)
DurationSum(rows) ==
    IF rows = {} THEN 0
    ELSE LET a == CHOOSE x \in rows : TRUE IN
         (ShiftOf(a).end_time - ShiftOf(a).start_time) + DurationSum(rows \ {a})

\* C6: for the month of any picked day the dashboard reports, for each
\* employee, as many shifts as the employee has active assignment rows with
\* start <= work_date < end, and as hours the sum of (end_time - start_time)
\* over exactly those rows.
C6_PerEmployeeTotals ==
    \A pick \in PickDates, e \in employees :
        /\ DashboardLine(pick, e).turnos = Cardinality(RowsOf(pick, e))
        /\ DashboardLine(pick, e).seconds = DurationSum(RowsOf(pick, e))

\* C8: close_month leaves the month closed, with exactly one record; on a
\* month that was closed already it leaves the whole table as it was, so the
\* first closed_by stays.
C8_CloseMonthIdempotent ==
    [][\A m \in MonthInputs :
          (last'.op = "close_month" /\ last'.args[1] = m) =>
              /\ is_month_closed(m)'
              /\ Cardinality({ r \in month_closures' : r.month_start = m }) = 1
              /\ is_month_closed(m) => month_closures' = month_closures
      ]_vars

\* close_month has run on a month closed before by somebody else, whose
\* record is still the month's record
C8_Witness ==
    /\ last.op = "close_month"
    /\ is_month_closed(last.args[1])
    /\ \E r \in month_closures : r.month_start = last.args[1]
                                 /\ r.closed_by # last.args[2]

BothDone == \A u \in Users : users[u].pc = "done"

ConcActive == ActiveSet(assignments, ConcSlot[1], ConcSlot[2])

\* C10 as claimed: once both interleaved calls have finished, the active set
\* of the slot is the desired set of one of them.
C10_Serializable ==
    BothDone => \E u \in Users : ConcActive = users[u].selected_ids

\* C10 amended: once both calls have finished, every employee both users
\* selected is active and every active employee was selected by one of them;
\* and when one call started after the other had finished, the active set is
\* the desired set of the later call.
C10_BetweenMeetAndJoin ==
    BothDone =>
        /\ users[1].selected_ids \cap users[2].selected_ids \subseteq ConcActive
        /\ ConcActive \subseteq users[1].selected_ids \cup users[2].selected_ids
        /\ \A u \in Users : users[u].after_other =>
               ConcActive = users[u].selected_ids

\* both calls have finished, they interleaved, and the active set is the
\* desired set of neither
C10_Witness ==
    /\ BothDone
    /\ \A u \in Users : ~ users[u].after_other
    /\ \A u \in Users : ConcActive # users[u].selected_ids

\* the employees that may work slot (dt, s), read off the tables: active,
\* no covering time-off, effective availability true
EffectivelyAvailable(dt, s) ==
    { e.id : e \in { x \in ActiveEmployees :
                       ~ Covered(x, dt, s) /\ Precedence(x, dt, s) } }

\* C11: a save through the calendar panel passes to apply_assignments only
\* ids returned by available_employees_for_date_shift for the slot; right
\* after it every active assignment row of the slot belongs to an active
\* employee with no covering time-off and effective availability true, and
\* every row of the slot that was active for an employee who is not
\* available is inactive.
C11_SaveActivatesOnlyAvailable ==
    [][ last'.op = "save_slot" =>
          LET dt == last'.args[1]
              s == last'.args[2]
              selected_ids == last'.args[3]
          IN  /\ selected_ids \subseteq { r.id : r \in Returned(dt, s) }
              /\ ActiveSet(assignments', dt, s) \subseteq EffectivelyAvailable(dt, s)
              /\ \A r \in assignments :
                     ( /\ SameSlot(r, dt, s)
                       /\ r.active = TRUE
                       /\ r.employee_id \notin EffectivelyAvailable(dt, s) )
                     => \E q \in assignments' : q.id = r.id /\ q.active = FALSE
      ]_vars

\* a save has activated somebody while the slot keeps an inactive row of an
\* employee who is on time off, inactive or not available
C11_Witness ==
    /\ last.op = "save_slot"
    /\ last.args[3] # {}
    /\ ActiveSet(assignments, last.args[1], last.args[2]) = last.args[3]
    /\ \E r \in assignments :
           /\ SameSlot(r, last.args[1], last.args[2])
           /\ r.employee_id \notin EffectivelyAvailable(last.args[1], last.args[2])
           /\ r.active = FALSE

====
